---- MODULE Spec2Model ----
(***************************************************************************)
(* Finnova personal finance manager: the account store (database/core.py,  *)
(* class Database) with its two on-disk documents, the registration and    *)
(* authentication paths built on it (modules/auth/face_auth.py,            *)
(* modules/auth/traditional.py, the login and registration windows of      *)
(* gui.py), and the collaborator windows that load and save the document.  *)
(*                                                                         *)
(* Conventions of the model                                                *)
(*   - An optional value (Python None or a value) is a sequence of length  *)
(*     0 or 1: None == <<>>, Some(v) == <<v>>.                             *)
(*   - A face embedding is a vector of n numbers that all lie on one axis: *)
(*     [kind, n, x] stands for the n-vector (x/100, 0, ..., 0), so the     *)
(*     Euclidean distance of two embeddings is |x1 - x2| / 100. kind tells *)
(*     a Python list from a numpy array.                                   *)
(*   - A file is [state |-> "absent"], [state |-> "partial"] or            *)
(*     [state |-> "complete", fmt |-> ..., doc |-> ...].                   *)
(*   - data.json holds JSON text: a mapping from top-level keys to values, *)
(*     each value written [t |-> its JSON type, v |-> its content]. In     *)
(*     memory a document is a record of plain values.                      *)
(*   - database/data.json and assets/face_models/known_faces.dat are       *)
(*     resolved from the application's root directory, where gui.py runs.  *)
(***************************************************************************)
EXTENDS Integers, Sequences, FiniteSets, TLC

VARIABLES
    data,        \* Database.data: the in-memory account document
    face_data,   \* Database.face_data: the in-memory face-template store
    dataFile,    \* database/data.json
    dataTmp,     \* database/data.json.tmp
    faceFile,    \* assets/face_models/known_faces.dat
    faceTmp,     \* assets/face_models/known_faces.dat.tmp
    now,         \* datetime.now(): a logical clock, one tick per call
    known,       \* FaceAuthenticator: known_face_encodings and known_face_names
    reg,         \* FaceAuthenticator.register_user in progress: username, attempt
    view,        \* a collaborator window's document (self.data = load_data())
    pc,          \* position inside a save that is running step by step
    job,         \* the document that save is writing and the file it found
    last,        \* the call that has just returned, with its arguments and result
    _callbacks,  \* Database._callbacks: the registered observers, in order
    login_face_encoding, \* LoginWindow.login_face_encoding: the captured probe
    registered   \* history: the register_user calls that have returned True

vars == <<data, face_data, dataFile, dataTmp, faceFile, faceTmp, now, known, reg,
          view, pc, job, last, _callbacks, login_face_encoding, registered>>

(* the state of the windows of gui.py and of the observer registry *)
windowVars == <<_callbacks, login_face_encoding>>

-----------------------------------------------------------------------------
(* Bounds of the model *)

MaxCalls == 2

(* Program constants *)

EncodingLength == 128
LoginTolerance == 40
DuplicateTolerance == 35
ConfidenceThreshold == 60
MaxAttempts == 3

-----------------------------------------------------------------------------
(* Values *)

None == <<>>
Some(v) == <<v>>
Truthy(s) == s # None /\ s[1] # ""

Str(s) == [type |-> "str", val |-> s]
NonStr == [type |-> "int", val |-> "7"]

Names == {"al", "Al"}
UsernameInputs == {Str(n) : n \in Names} \cup {Str(""), NonStr}
PasswordInputs == {None, Some(""), Some("pw")}

Positions == {0, 20, 60}
ListEnc(n, x) == [kind |-> "list", n |-> n, x |-> x]
tolist(e) == [kind |-> "list", n |-> e.n, x |-> e.x]
nparray(e) == [kind |-> "ndarray", n |-> e.n, x |-> e.x]
EnrollPositions == {0, 20}
Probes == {ListEnc(EncodingLength, x) : x \in Positions}
EncodingInputs == {None} \cup {Some(ListEnc(EncodingLength, x)) : x \in EnrollPositions}
                         \cup {Some(ListEnc(EncodingLength - 1, 0))}

Absent == [state |-> "absent"]
Partial == [state |-> "partial"]
Complete(fmt, doc) == [state |-> "complete", fmt |-> fmt, doc |-> doc]

(* the keys load_data requires, and the type it requires of each *)
required_keys == {"income", "expenses", "categories", "budget", "goals", "users"}
ExpectedType(key) == IF key = "budget" THEN "dict" ELSE "list"

EmptyList == <<>>
EmptyDict == [c \in {} |-> 0]

(* expected_type(): list() or dict() *)
EmptyOf(type) == IF type = "dict" THEN EmptyDict ELSE EmptyList

(* the default document of load_data *)
EmptyData ==
    [income |-> EmptyList, expenses |-> EmptyList, categories |-> EmptyList,
     budget |-> EmptyDict, goals |-> EmptyList, users |-> EmptyList]
EmptyFaceData == [encodings |-> <<>>, usernames |-> <<>>]
EmptyKnown == [encodings |-> <<>>, names |-> <<>>]

-----------------------------------------------------------------------------
(* Helpers of Database *)

RECURSIVE WithoutUser(_, _)
(* [u for u in self.data["users"] if u["username"] != username] *)
WithoutUser(users, username) ==
    IF users = <<>> THEN <<>>
    ELSE IF Head(users).username # username
         THEN <<Head(users)>> \o WithoutUser(Tail(users), username)
         ELSE WithoutUser(Tail(users), username)

(* any(user['username'] == username for user in self.data['users']) *)
user_exists(d, username) ==
    \E i \in 1..Len(d.users) : d.users[i].username = username

(* next((u for u in self.data['users'] if u['username'] == username), None) *)
FindUser(d, username) ==
    IF user_exists(d, username)
    THEN LET i == CHOOSE k \in 1..Len(d.users) :
                      /\ d.users[k].username = username
                      /\ \A j \in 1..(k - 1) : d.users[j].username # username
         IN  Some(d.users[i])
    ELSE None

get_user_auth_methods_password_only(d, username) ==
    LET user == FindUser(d, username) IN
    IF user = None THEN <<>>
    ELSE IF user[1].password_hash # None THEN <<"password">> ELSE <<>>

get_user_auth_methods(d, username) ==
    LET user == FindUser(d, username) IN
    IF user = None THEN <<>>
    ELSE (IF user[1].password_hash # None THEN <<"password">> ELSE <<>>)
         \o (IF user[1].face_encoding # None THEN <<"face">> ELSE <<>>)

(* hashlib.sha256(s.encode()).hexdigest(): the digest is written as the    *)
(* preimage in a wrapper, so that equal digests mean equal inputs.         *)
sha256(s) == "sha256(" \o s \o ")"

(* Database._hash_password, with FINNOVA_PASSWORD_SALT unset *)
_hash_password(password) ==
    IF ~Truthy(password) THEN None
    ELSE Some(sha256(password[1] \o "finnova_secret_pepper" \o "default_salt_value"))

(* list.index(x): the first position holding x *)
IndexOf(seq, x) ==
    CHOOSE k \in 1..Len(seq) : seq[k] = x /\ \A j \in 1..(k - 1) : seq[j] # x

(* list.pop(idx) *)
Pop(seq, idx) == SubSeq(seq, 1, idx - 1) \o SubSeq(seq, idx + 1, Len(seq))

InSeq(seq, x) == \E k \in 1..Len(seq) : seq[k] = x

-----------------------------------------------------------------------------
(* The temp-file-then-replace save, step by step. A save works on the pair *)
(* fs = [primary, tmp]; ok tells whether the filesystem call succeeded.    *)

(* with open(temp_file, 'w') as file: json.dump(...) *)
WriteTemp(fs, content, ok) ==
    [primary |-> fs.primary, tmp |-> IF ok THEN content ELSE Partial]

(* if os.path.exists(FILE): os.remove(FILE) *)
RemovePrimary(fs, ok) ==
    IF fs.primary.state # "absent" /\ ok
    THEN [primary |-> Absent, tmp |-> fs.tmp]
    ELSE fs

(* os.rename(temp_file, FILE) *)
RenameTemp(fs, ok) ==
    IF ok THEN [primary |-> fs.tmp, tmp |-> Absent] ELSE fs

(* if os.path.exists(temp_file): os.remove(temp_file) *)
RemoveTemp(fs) == [primary |-> fs.primary, tmp |-> Absent]

SaveOutcomes == {"ok", "write", "remove", "rename"}

(* the outcomes a save can have on fs: os.remove runs only on a primary    *)
(* file that exists                                                        *)
OutcomesFor(fs) ==
    IF fs.primary.state = "absent" THEN SaveOutcomes \ {"remove"} ELSE SaveOutcomes

(* One whole save: outcome names the filesystem call that raises, if any.  *)
(* A failing os.remove needs a primary file to remove.                     *)
SaveFile(fs, content, outcome) ==
    LET w == WriteTemp(fs, content, outcome # "write")
        r == RemovePrimary(w, outcome # "remove")
        n == RenameTemp(r, outcome # "rename")
    IN  IF outcome = "write"
        THEN [ok |-> FALSE, fs |-> RemoveTemp(w)]
        ELSE IF outcome = "remove" /\ fs.primary.state # "absent"
        THEN [ok |-> FALSE, fs |-> RemoveTemp(r)]
        ELSE IF outcome = "rename"
        THEN [ok |-> FALSE, fs |-> RemoveTemp(n)]
        ELSE [ok |-> TRUE, fs |-> RemoveTemp(n)]

(* json.dump(document): the text holds every key with the JSON type of its *)
(* value, an array for a list and an object for a dict.                    *)
json_dump(d) == [key \in DOMAIN d |-> [t |-> ExpectedType(key), v |-> d[key]]]

(* json.dump raises TypeError on a value that is not a list, dict, str,    *)
(* number, bool or None: a numpy array among the users' face encodings.    *)
Serializable(d) ==
    \A i \in 1..Len(d.users) :
        d.users[i].face_encoding # None => d.users[i].face_encoding[1].kind = "list"

(* Database.save_data(data): json.dump of the document to data.json; a     *)
(* document json.dump cannot write fails at the write of the temp file.    *)
save_data(fs, d, outcome) ==
    SaveFile(fs, Complete("json", json_dump(d)),
             IF Serializable(d) THEN outcome ELSE "write")

(* Database.save_face_data(): pickle.dump of self.face_data, a mapping     *)
(* with the keys 'encodings' and 'usernames'                               *)
save_face_data(fs, fd, outcome) ==
    SaveFile(fs, Complete("usernames", fd), outcome)

-----------------------------------------------------------------------------
(* Database.register_user *)

(* not username or not isinstance(username, str) *)
InvalidUsername(u) == u.type # "str" \/ u.val = ""

InvalidEncoding_unchecked(fe) == FALSE

(* len(face_encoding_list) != 128 *)
InvalidEncoding(fe) == fe # None /\ fe[1].n # EncodingLength

(* the auth_methods list built from the arguments *)
AuthMethodsOf(pw, fe) ==
    (IF Truthy(pw) THEN <<"password">> ELSE <<>>)
    \o (IF fe # None THEN <<"face">> ELSE <<>>)

NewUserRecord(name, pw, fe, date) ==
    [username |-> name,
     password_hash |-> _hash_password(pw),
     face_encoding |-> IF fe = None THEN None ELSE Some(tolist(fe[1])),
     registration_date |-> date,
     auth_methods |-> AuthMethodsOf(pw, fe)]

RollbackUsers_skipped(users, name) == users

(* the rollback of the user list when the face data could not be saved *)
RollbackUsers(users, name) == WithoutUser(users, name)

RollbackFaceData_misaligned(fd, name) ==
    IF InSeq(fd.usernames, name)
    THEN [encodings |-> Tail(fd.encodings),
          usernames |-> Pop(fd.usernames, IndexOf(fd.usernames, name))]
    ELSE fd

(* the rollback of the face data when the user data could not be saved *)
RollbackFaceData(fd, name) ==
    IF InSeq(fd.usernames, name)
    THEN LET idx == IndexOf(fd.usernames, name)
         IN  [encodings |-> Pop(fd.encodings, idx),
              usernames |-> Pop(fd.usernames, idx)]
    ELSE fd

(* The state register_user works on and returns: st = [data, face_data,    *)
(* dataFS, faceFS]. o1, o2, o3 are the outcomes of the save of the face    *)
(* data, of the user data, and of the face data again after its rollback.  *)
Rejected(st, reason) ==
    [data |-> st.data, face_data |-> st.face_data,
     dataFS |-> st.dataFS, faceFS |-> st.faceFS,
     result |-> FALSE, reason |-> reason, saves |-> <<>>]

StoreUser(st, name, pw, fe, date, o1, o2, o3) ==
    LET users1 == Append(st.data.users, NewUserRecord(name, pw, fe, date))
        fd1 == IF fe = None THEN st.face_data
               ELSE [encodings |-> Append(st.face_data.encodings, nparray(fe[1])),
                     usernames |-> Append(st.face_data.usernames, name)]
        sfd == IF fe = None THEN [ok |-> TRUE, fs |-> st.faceFS]
               ELSE save_face_data(st.faceFS, fd1, o1)
        saves1 == IF fe = None THEN <<>> ELSE <<"save_face_data">>
        data1 == [st.data EXCEPT !.users = users1]
        sd == save_data(st.dataFS, data1, o2)
        fd2 == RollbackFaceData(fd1, name)
        sfd2 == save_face_data(sfd.fs, fd2, o3)
    IN  IF ~sfd.ok
        THEN [data |-> [st.data EXCEPT !.users = RollbackUsers(users1, name)],
              face_data |-> fd1,
              dataFS |-> st.dataFS, faceFS |-> sfd.fs,
              result |-> FALSE, reason |-> "save_face_data", saves |-> saves1]
        ELSE IF ~sd.ok
        THEN IF fe # None /\ InSeq(fd1.usernames, name)
             THEN [data |-> data1, face_data |-> fd2,
                   dataFS |-> sd.fs, faceFS |-> sfd2.fs,
                   result |-> FALSE, reason |-> "save_data",
                   saves |-> saves1 \o <<"save_data", "save_face_data">>]
             ELSE [data |-> data1, face_data |-> fd1,
                   dataFS |-> sd.fs, faceFS |-> sfd.fs,
                   result |-> FALSE, reason |-> "save_data",
                   saves |-> saves1 \o <<"save_data">>]
        ELSE [data |-> data1, face_data |-> fd1,
              dataFS |-> sd.fs, faceFS |-> sfd.fs,
              result |-> TRUE, reason |-> "success",
              saves |-> saves1 \o <<"save_data">>]

RejectReason_no_duplicate_check(d, u, pw, fe) ==
    IF InvalidUsername(u) THEN "invalid_username"
    ELSE IF InvalidEncoding(fe) THEN "invalid_encoding"
    ELSE IF AuthMethodsOf(pw, fe) = <<>> THEN "no_auth_method"
    ELSE ""

(* the reason register_user returns False before storing anything, or "" *)
RejectReason(d, u, pw, fe) ==
    IF InvalidUsername(u) THEN "invalid_username"
    ELSE IF user_exists(d, u.val) THEN "duplicate"
    ELSE IF InvalidEncoding(fe) THEN "invalid_encoding"
    ELSE IF AuthMethodsOf(pw, fe) = <<>> THEN "no_auth_method"
    ELSE ""

Database_register_user(st, u, pw, fe, date, o1, o2, o3) ==
    IF RejectReason(st.data, u, pw, fe) # ""
    THEN Rejected(st, RejectReason(st.data, u, pw, fe))
    ELSE StoreUser(st, u.val, pw, fe, date, o1, o2, o3)

-----------------------------------------------------------------------------
(* Face matching *)

(* face_recognition.face_distance: the Euclidean distance, in hundredths *)
face_distance(enc, probe) ==
    IF enc.x >= probe.x THEN enc.x - probe.x ELSE probe.x - enc.x

(* face_recognition.compare_faces(known_encodings, probe, tolerance):      *)
(* list(face_distance(known_encodings, probe) <= tolerance)                *)
compare_faces(encodings, probe, tolerance) ==
    [i \in 1..Len(encodings) |-> face_distance(encodings[i], probe) <= tolerance]

authenticate_face_unverified(d, fd, probe) ==
    LET matches == compare_faces(fd.encodings, nparray(probe), LoginTolerance) IN
    IF fd.encodings = <<>> THEN None
    ELSE IF InSeq(matches, TRUE)
    THEN Some(fd.usernames[IndexOf(matches, TRUE)])
    ELSE None

(* Database.authenticate_face *)
authenticate_face(d, fd, probe) ==
    LET matches == compare_faces(fd.encodings, nparray(probe), LoginTolerance) IN
    IF fd.encodings = <<>> THEN None
    ELSE IF InSeq(matches, TRUE)
    THEN LET username == fd.usernames[IndexOf(matches, TRUE)] IN
         IF user_exists(d, username) THEN Some(username) ELSE None
    ELSE None

-----------------------------------------------------------------------------
(* FaceAuthenticator *)

(* FaceAuthenticator.save_known_faces: pickle.dump of a mapping with the   *)
(* keys 'encodings' and 'names', to the same known_faces.dat               *)
save_known_faces(fs, kn, outcome) == SaveFile(fs, Complete("names", kn), outcome)

(* FaceAuthenticator.load_known_faces: data['names'] of a file written by  *)
(* Database.save_face_data raises, and both lists are reset.               *)
load_known_faces(fs) ==
    IF fs.primary.state = "complete" /\ fs.primary.fmt = "names"
    THEN fs.primary.doc
    ELSE EmptyKnown

(* the rollback of register_user's except branch *)
RollbackKnown(kn, name) ==
    IF InSeq(kn.names, name)
    THEN LET idx == IndexOf(kn.names, name)
         IN  [encodings |-> Pop(kn.encodings, idx), names |-> Pop(kn.names, idx)]
    ELSE kn

(* np.argmin(face_distances): the first index of the least distance *)
ArgMin(encodings, probe) ==
    CHOOSE k \in 1..Len(encodings) :
        /\ \A j \in 1..Len(encodings) :
              face_distance(encodings[k], probe) <= face_distance(encodings[j], probe)
        /\ \A j \in 1..(k - 1) :
              face_distance(encodings[j], probe) > face_distance(encodings[k], probe)

(* one pass of the loop of FaceAuthenticator.authenticate: done tells      *)
(* whether the pass returned                                               *)
FaceAuthOneAttempt(kn, d, capture) ==
    LET matches == compare_faces(kn.encodings, capture[1], LoginTolerance)
        best == ArgMin(kn.encodings, capture[1])
    IN  IF capture = None THEN [done |-> FALSE, result |-> None]
        ELSE IF matches[best] /\ face_distance(kn.encodings[best], capture[1])
                                    < 100 - ConfidenceThreshold
        THEN [done |-> TRUE,
              result |-> IF user_exists(d, kn.names[best])
                         THEN Some(kn.names[best]) ELSE None]
        ELSE [done |-> FALSE, result |-> None]

RECURSIVE FaceAuthLoop(_, _, _, _)
FaceAuthLoop(kn, d, captures, attempt) ==
    IF attempt > Len(captures) THEN None
    ELSE LET a == FaceAuthOneAttempt(kn, d, captures[attempt])
         IN  IF a.done THEN a.result
             ELSE FaceAuthLoop(kn, d, captures, attempt + 1)

(* FaceAuthenticator.authenticate(): captures[i] is what the camera gives  *)
(* in pass i                                                               *)
FaceAuthenticator_authenticate(kn, d, captures) ==
    IF kn.encodings = <<>> THEN None ELSE FaceAuthLoop(kn, d, captures, 1)

-----------------------------------------------------------------------------
(* Loading, as done by Database.__init__ and by the collaborators *)

DataFS == [primary |-> dataFile, tmp |-> dataTmp]
FaceFS == [primary |-> faceFile, tmp |-> faceTmp]

(* json.load(file): the mapping the text holds *)
json_load(text) == text

(* the validation loop of load_data: a required key that is missing or not *)
(* of its expected type gets the empty value of that type.                 *)
Repair(text) ==
    [key \in required_keys |->
        IF key \in DOMAIN text /\ text[key].t = ExpectedType(key)
        THEN text[key].v
        ELSE EmptyOf(ExpectedType(key))]

(* {str(c) for c in data['categories'] if c}: the set of the non-empty     *)
(* categories                                                              *)
CategorySet(categories) ==
    {categories[i] : i \in {j \in 1..Len(categories) : categories[j] # ""}}

(* list(a set): the elements once each, in the iteration order of the set, *)
(* which for strings depends on the hash seed of the process               *)
Orderings(S) ==
    {order \in [1..Cardinality(S) -> S] :
        \A i, j \in 1..Cardinality(S) : i # j => order[i] # order[j]}

(* the orders in which load_data can list the categories of the file *)
CategoryOrders(fs) ==
    IF fs.primary.state = "complete"
    THEN Orderings(CategorySet(Repair(json_load(fs.primary.doc)).categories))
    ELSE {EmptyList}

(* Database.load_data: a missing file gives the default document, which is *)
(* saved; an unreadable file gives the default document, which is not. A   *)
(* file that parses is repaired key by key and its categories are listed   *)
(* from a set, in the order given. saved tells whether a save_data call    *)
(* made here succeeded.                                                    *)
load_data(fs, outcome, order) ==
    IF fs.primary.state = "complete"
    THEN [doc |-> [Repair(json_load(fs.primary.doc)) EXCEPT !.categories = order],
          fs |-> fs, saved |-> FALSE]
    ELSE IF fs.primary.state = "absent"
    THEN LET s == save_data(fs, EmptyData, outcome)
         IN  [doc |-> EmptyData, fs |-> s.fs, saved |-> s.ok]
    ELSE [doc |-> EmptyData, fs |-> fs, saved |-> FALSE]

(* Database.load_face_data: a file without the keys 'encodings' and        *)
(* 'usernames' counts as empty.                                            *)
load_face_data(fs) ==
    IF fs.primary.state = "complete" /\ fs.primary.fmt = "usernames"
    THEN fs.primary.doc
    ELSE EmptyFaceData

-----------------------------------------------------------------------------
(* Observers of the account document *)

(* the windows that register self.on_data_updated *)
Observers == {"BudgetWindow", "TransactionsWindow"}

(* how often each observer was called *)
NoNotification == [o \in Observers |-> 0]

(* if callback not in self._callbacks: self._callbacks.append(callback) *)
register_callback(callbacks, o) ==
    IF InSeq(callbacks, o) THEN callbacks ELSE Append(callbacks, o)

(* if callback in self._callbacks: self._callbacks.remove(callback) *)
unregister_callback(callbacks, o) ==
    IF InSeq(callbacks, o) THEN Pop(callbacks, IndexOf(callbacks, o)) ELSE callbacks

(* Database.notify_callbacks: one call of every entry of the list *)
notify_callbacks(callbacks) ==
    [o \in Observers |-> Cardinality({i \in 1..Len(callbacks) : callbacks[i] = o})]

(* the calls of two passes of notify_callbacks *)
Both(n1, n2) == [o \in Observers |-> n1[o] + n2[o]]

(* if success: self.notify_callbacks() *)
NotifyIf(success, callbacks) ==
    IF success THEN notify_callbacks(callbacks) ELSE NoNotification

(* what an observer does when it is called: it returns, it raises, or it   *)
(* unregisters itself and then raises                                      *)
Behaviours == {"returns", "raises", "unregisters_and_raises"}

RECURSIVE NotifyFrom(_, _, _, _)
(* the loop of notify_callbacks from position i of the copy of the list:   *)
(* an observer that raises is removed from self._callbacks in the except   *)
(* branch; when it is no longer in the list, that remove raises ValueError *)
(* and the loop ends there.                                                *)
NotifyFrom(copy, i, callbacks, behaviour) ==
    IF i > Len(copy)
    THEN [callbacks |-> callbacks, notified |-> NoNotification, raised |-> ""]
    ELSE IF behaviour[copy[i]] = "returns"
    THEN [NotifyFrom(copy, i + 1, callbacks, behaviour)
             EXCEPT !.notified[copy[i]] = @ + 1]
    ELSE IF behaviour[copy[i]] = "raises"
    THEN [NotifyFrom(copy, i + 1, Pop(callbacks, IndexOf(callbacks, copy[i])),
                     behaviour)
             EXCEPT !.notified[copy[i]] = @ + 1]
    ELSE [callbacks |-> unregister_callback(callbacks, copy[i]),
          notified |-> [NoNotification EXCEPT ![copy[i]] = 1],
          raised |-> "ValueError"]

(* Database.notify_callbacks with observers that behave as given: the list *)
(* it leaves, the calls it made, and the exception that leaves it, if any  *)
notify_round(callbacks, behaviour) == NotifyFrom(callbacks, 1, callbacks, behaviour)

-----------------------------------------------------------------------------
(* Initial state: a first launch, no file on disk, Database() constructed. *)

Init ==
    \E o \in SaveOutcomes :
        LET ld == load_data([primary |-> Absent, tmp |-> Absent], o, EmptyList) IN
        /\ data = ld.doc
        /\ dataFile = ld.fs.primary
        /\ dataTmp = ld.fs.tmp
        /\ face_data = EmptyFaceData
        /\ faceFile = Absent
        /\ faceTmp = Absent
        /\ now = 0
        /\ known = EmptyKnown
        /\ reg = None
        /\ view = None
        /\ pc = "idle"
        /\ job = None
        /\ last = [op |-> "__init__"]
        /\ _callbacks = <<>>
        /\ login_face_encoding = None
        /\ registered = {}

-----------------------------------------------------------------------------
(* Actions *)

(* The event loop is idle: no save is in progress and the result of the   *)
(* previous call has been handed to its caller.                            *)
Ready == pc = "idle" /\ reg = None /\ last.op = "none"

DbState ==
    [data |-> data, face_data |-> face_data, dataFS |-> DataFS, faceFS |-> FaceFS]

(* the effect of one register_user call that returned r *)
Registered(u, pw, fe, r) ==
    /\ data' = r.data
    /\ face_data' = r.face_data
    /\ dataFile' = r.dataFS.primary
    /\ dataTmp' = r.dataFS.tmp
    /\ faceFile' = r.faceFS.primary
    /\ faceTmp' = r.faceFS.tmp
    /\ now' = IF r.reason \in {"success", "save_data", "save_face_data"}
              THEN now + 1 ELSE now
    /\ last' = [op |-> "register_user", username |-> u, password |-> pw,
                face_encoding |-> fe, result |-> r.result,
                reason |-> r.reason, saves |-> r.saves,
                notified |-> NotifyIf(r.result, _callbacks)]

(* db_instance.register_user(username, password, face_encoding); the save  *)
(* outcomes are drawn only for the saves the call reaches.                 *)
RegisterCall(unames, pws, encs) ==
    /\ Ready
    /\ \E u \in unames, pw \in pws, fe \in encs :
       LET rej == RejectReason(data, u, pw, fe) # "" IN
       /\ rej \/ now < MaxCalls
       /\ \E o1 \in IF rej \/ fe = None THEN {"ok"} ELSE OutcomesFor(FaceFS) :
          \E o2 \in IF rej \/ o1 # "ok" THEN {"ok"} ELSE OutcomesFor(DataFS) :
          \E o3 \in IF rej \/ fe = None \/ o1 # "ok" \/ o2 = "ok"
                    THEN {"ok"} ELSE SaveOutcomes :
          \E r \in {Database_register_user(DbState, u, pw, fe, now + 1, o1, o2, o3)} :
             Registered(u, pw, fe, r)
    /\ UNCHANGED <<known, reg, view, pc, job>>
    /\ UNCHANGED windowVars

RegisterWith(unames, pws, encs) ==
    /\ RegisterCall(unames, pws, encs)
    /\ UNCHANGED registered

RegisterUser == RegisterWith(UsernameInputs, PasswordInputs, EncodingInputs)

(* TraditionalAuthenticator._hash_password *)
Traditional_hash_password(password) ==
    IF ~Truthy(password) THEN None
    ELSE Some(sha256("finnova_salt_" \o password[1] \o "_secret_pepper"))

EntryNames == Names \cup {""}
EntryPasswords == {"", "pw"}

(* TraditionalAuthenticator.register_user(username, password): the texts  *)
(* of the two entry fields; the database is called with the digest of the *)
(* password as its password.                                               *)
TraditionalRegisterCall ==
    /\ Ready
    /\ \E name \in EntryNames, password \in EntryPasswords :
          IF name = "" \/ password = "" \/ user_exists(data, name)
          THEN /\ last' = [op |-> "traditional_register", username |-> Str(name),
                           result |-> FALSE]
               /\ UNCHANGED <<data, face_data, dataFile, dataTmp, faceFile,
                              faceTmp, now>>
          ELSE /\ now < MaxCalls
               /\ \E o2 \in OutcomesFor(DataFS) :
                  \E r \in {Database_register_user(DbState, Str(name),
                                 Traditional_hash_password(Some(password)),
                                 None, now + 1, "ok", o2, "ok")} :
                     Registered(Str(name), Traditional_hash_password(Some(password)),
                                None, r)
    /\ UNCHANGED <<known, reg, view, pc, job>>
    /\ UNCHANGED windowVars

TraditionalRegister ==
    /\ TraditionalRegisterCall
    /\ UNCHANGED registered

AuthenticateFace_purging ==
    /\ Ready
    /\ \E probe \in Probes :
          LET result == authenticate_face(data, face_data, probe)
              matches == compare_faces(face_data.encodings, nparray(probe),
                                       LoginTolerance)
          IN
          /\ last' = [op |-> "authenticate_face", probe |-> probe, result |-> result]
          /\ face_data' = IF result = None /\ InSeq(matches, TRUE)
                          THEN [encodings |-> Pop(face_data.encodings,
                                                  IndexOf(matches, TRUE)),
                                usernames |-> Pop(face_data.usernames,
                                                  IndexOf(matches, TRUE))]
                          ELSE face_data
    /\ UNCHANGED <<data, dataFile, dataTmp, faceFile, faceTmp,
                   now, known, reg, view, pc, job>>
    /\ UNCHANGED windowVars
    /\ UNCHANGED registered

(* db_instance.authenticate_face(face_encoding) *)
AuthenticateFace ==
    /\ Ready
    /\ \E probe \in Probes :
          last' = [op |-> "authenticate_face", probe |-> probe,
                   result |-> authenticate_face(data, face_data, probe)]
    /\ UNCHANGED <<data, face_data, dataFile, dataTmp, faceFile, faceTmp,
                   now, known, reg, view, pc, job>>
    /\ UNCHANGED windowVars
    /\ UNCHANGED registered

Captures == {None} \cup {Some(nparray(p)) : p \in Probes}
EnrollCaptures == {None} \cup {Some(nparray(ListEnc(EncodingLength, x))) : x \in EnrollPositions}

(* face_auth.authenticate(): up to three captures, matched against the     *)
(* known faces                                                             *)
FaceAuthenticate ==
    /\ Ready
    /\ \E captures \in [1..MaxAttempts -> Captures] :
          last' = [op |-> "face_authenticate", captures |-> captures,
                   result |-> FaceAuthenticator_authenticate(known, data, captures)]
    /\ UNCHANGED <<data, face_data, dataFile, dataTmp, faceFile, faceTmp,
                   now, known, reg, view, pc, job>>
    /\ UNCHANGED windowVars
    /\ UNCHANGED registered

(* face_auth.register_user(username): the checks before the loop *)
FaceRegisterCall ==
    /\ Ready
    /\ \E name \in EntryNames :
          IF name = "" \/ InSeq(known.names, name) \/ user_exists(data, name)
          THEN /\ last' = [op |-> "face_register", username |-> Str(name),
                           result |-> FALSE]
               /\ reg' = None
          ELSE /\ reg' = Some([username |-> name, attempt |-> 1])
               /\ last' = last
    /\ UNCHANGED <<data, face_data, dataFile, dataTmp, faceFile, faceTmp,
                   now, known, view, pc, job>>
    /\ UNCHANGED windowVars
    /\ UNCHANGED registered

(* the end of one pass of the loop that did not return: the next pass, or  *)
(* return False after the last                                             *)
NextAttempt ==
    IF reg[1].attempt < MaxAttempts
    THEN /\ reg' = Some([reg[1] EXCEPT !.attempt = @ + 1])
         /\ last' = last
    ELSE /\ reg' = None
         /\ last' = [op |-> "face_register", username |-> Str(reg[1].username),
                     result |-> FALSE]

(* face_auth.register_user(username): one pass of the loop *)
FaceRegisterAttempt ==
    /\ pc = "idle"
    /\ reg # None
    /\ \E capture \in EnrollCaptures :
       LET name == reg[1].username
           kn1 == [encodings |-> Append(known.encodings, capture[1]),
                   names |-> Append(known.names, name)]
           fe == Some(tolist(capture[1]))
           rej == RejectReason(data, Str(name), None, fe) # ""
       IN
       IF capture = None
       THEN /\ NextAttempt
            /\ UNCHANGED <<data, face_data, dataFile, dataTmp, faceFile, faceTmp,
                           now, known>>
       ELSE IF InSeq(compare_faces(known.encodings, capture[1], DuplicateTolerance), TRUE)
       THEN /\ reg' = None
            /\ last' = [op |-> "face_register", username |-> Str(name),
                        result |-> FALSE]
            /\ UNCHANGED <<data, face_data, dataFile, dataTmp, faceFile, faceTmp,
                           now, known>>
       ELSE /\ rej \/ now < MaxCalls
            /\ \E o1 \in IF rej THEN {"ok"} ELSE OutcomesFor(FaceFS) :
               \E o2 \in IF rej \/ o1 # "ok" THEN {"ok"} ELSE OutcomesFor(DataFS) :
               \E o3 \in IF rej \/ o1 # "ok" \/ o2 = "ok" THEN {"ok"} ELSE SaveOutcomes :
               \E r \in {Database_register_user(DbState, Str(name), None, fe,
                                                now + 1, o1, o2, o3)} :
               \E o4 \in IF r.result THEN SaveOutcomes ELSE {"ok"} :
               \E skf \in {save_known_faces(r.faceFS, kn1, o4)} :
                  /\ data' = r.data
                  /\ face_data' = r.face_data
                  /\ dataFile' = r.dataFS.primary
                  /\ dataTmp' = r.dataFS.tmp
                  /\ now' = IF rej THEN now ELSE now + 1
                  /\ IF ~r.result
                     THEN /\ known' = RollbackKnown(kn1, name)
                          /\ faceFile' = r.faceFS.primary
                          /\ faceTmp' = r.faceFS.tmp
                          /\ NextAttempt
                     ELSE /\ faceFile' = skf.fs.primary
                          /\ faceTmp' = skf.fs.tmp
                          /\ IF ~skf.ok
                             THEN /\ known' = RollbackKnown(kn1, name)
                                  /\ NextAttempt
                             ELSE /\ known' = kn1
                                  /\ reg' = None
                                  /\ last' = [op |-> "face_register",
                                              username |-> Str(name),
                                              result |-> TRUE]
    /\ UNCHANGED <<view, pc, job>>
    /\ UNCHANGED windowVars
    /\ UNCHANGED registered

-----------------------------------------------------------------------------
(* Password verification and the login and registration windows *)

authenticate_password_any_digest(d, username, password) ==
    LET user == FindUser(d, username) IN
    user # None /\ Truthy(user[1].password_hash)

(* Database.authenticate_password *)
authenticate_password(d, username, password) ==
    LET user == FindUser(d, username) IN
    IF user = None \/ ~Truthy(user[1].password_hash) THEN FALSE
    ELSE user[1].password_hash = _hash_password(password)

(* TraditionalAuthenticator.authenticate: the digest of the password is    *)
(* what the database is asked to verify                                    *)
Traditional_authenticate(d, username, password) ==
    IF username = "" \/ password = "" THEN FALSE
    ELSE authenticate_password(d, username, Traditional_hash_password(Some(password)))

(* the texts a password field can hold: empty, shorter than 8, 8 or more *)
FormPasswords == {"", "pw", "password1"}
MinPasswordLength == 8

(* db_instance.authenticate_password(username, password) *)
AuthenticatePassword ==
    /\ Ready
    /\ \E name \in EntryNames, password \in PasswordInputs \cup {Some("password1")} :
          last' = [op |-> "authenticate_password", username |-> name,
                   password |-> password,
                   result |-> authenticate_password(data, name, password)]
    /\ UNCHANGED <<data, face_data, dataFile, dataTmp, faceFile, faceTmp,
                   now, known, reg, view, pc, job>>
    /\ UNCHANGED windowVars
    /\ UNCHANGED registered

(* traditional_auth.authenticate(username, password) *)
TraditionalAuthenticate ==
    /\ Ready
    /\ \E name \in EntryNames, password \in FormPasswords :
          last' = [op |-> "traditional_authenticate", username |-> name,
                   password |-> password,
                   result |-> Traditional_authenticate(data, name, password)]
    /\ UNCHANGED <<data, face_data, dataFile, dataTmp, faceFile, faceTmp,
                   now, known, reg, view, pc, job>>
    /\ UNCHANGED windowVars
    /\ UNCHANGED registered

(* the methods of Database; update_user_password is not among them *)
DatabaseMethods ==
    {"load_data", "load_face_data", "save_data", "save_face_data", "register_user",
     "add_transaction", "authenticate_password", "authenticate_face",
     "_hash_password", "user_exists", "get_user_auth_methods",
     "get_user_face_encoding", "register_callback", "unregister_callback",
     "notify_callbacks"}

(* TraditionalAuthenticator.change_password: returned is the value the     *)
(* call returns, or None when it raises. The old password, when one is     *)
(* given, is verified; a new password shorter than 8 characters is         *)
(* refused; then db_instance.update_user_password is looked up, which      *)
(* raises AttributeError, so no digest is ever written.                    *)
change_password(d, username, old_password, new_password) ==
    IF old_password # "" /\ ~Traditional_authenticate(d, username, old_password)
    THEN [returned |-> Some(FALSE), raised |-> "", data |-> d]
    ELSE IF Len(new_password) < MinPasswordLength
    THEN [returned |-> Some(FALSE), raised |-> "", data |-> d]
    ELSE IF "update_user_password" \notin DatabaseMethods
    THEN [returned |-> None, raised |-> "AttributeError", data |-> d]
    ELSE [returned |-> Some(FALSE), raised |-> "", data |-> d]

(* traditional_auth.change_password(username, old_password, new_password)  *)
ChangePassword ==
    /\ Ready
    /\ \E name \in EntryNames, old_password \in FormPasswords,
          new_password \in FormPasswords :
       \E r \in {change_password(data, name, old_password, new_password)} :
          /\ data' = r.data
          /\ last' = [op |-> "change_password", username |-> name,
                      old_password |-> old_password, new_password |-> new_password,
                      verified |-> Traditional_authenticate(data, name, old_password),
                      before |-> FindUser(data, name),
                      returned |-> r.returned, raised |-> r.raised]
    /\ UNCHANGED <<face_data, dataFile, dataTmp, faceFile, faceTmp,
                   now, known, reg, view, pc, job>>
    /\ UNCHANGED windowVars
    /\ UNCHANGED registered

(* user_data = next(u for u in users if u['username'] == username);       *)
(* user_data['face_encoding'] = face_encoding_list                         *)
SetFaceEncoding(users, name, encoding) ==
    [i \in 1..Len(users) |->
        IF users[i].username = name /\ \A j \in 1..(i - 1) : users[j].username # name
        THEN [users[i] EXCEPT !.face_encoding = Some(tolist(encoding))]
        ELSE users[i]]

(* RegistrationWindow._complete_registration: the account is created with  *)
(* the password, then the captured embedding is written into its record    *)
(* and the document saved again, then the embedding is appended to the     *)
(* login window's known faces, which are saved. Each failure raises and    *)
(* ends the handler in its except branch.                                  *)
CompleteRegistration ==
    /\ Ready
    /\ \E name \in EntryNames, password \in FormPasswords,
          confirm \in FormPasswords, capture \in EnrollCaptures :
       LET invalid == \/ name = "" \/ password = "" \/ confirm = ""
                      \/ password # confirm
                      \/ Len(password) < MinPasswordLength
                      \/ capture = None
           hashed == Traditional_hash_password(Some(password))
       IN
       IF invalid \/ user_exists(data, name)
       THEN /\ last' = [op |-> "complete_registration", username |-> Str(name),
                        result |-> FALSE,
                        reason |-> IF invalid THEN "invalid_input" ELSE "register_user",
                        notified |-> NoNotification]
            /\ UNCHANGED <<data, face_data, dataFile, dataTmp, faceFile, faceTmp,
                           now, known>>
       ELSE /\ now < MaxCalls
            /\ \E o2 \in OutcomesFor(DataFS) :
               \E r \in {Database_register_user(DbState, Str(name), hashed, None,
                                                now + 1, "ok", o2, "ok")} :
               \E o3 \in IF r.result THEN SaveOutcomes ELSE {"ok"} :
               \E o4 \in IF r.result /\ o3 = "ok" THEN OutcomesFor(FaceFS) ELSE {"ok"} :
               LET data2 == [r.data EXCEPT
                                !.users = SetFaceEncoding(@, name, capture[1])]
                   sd == save_data(r.dataFS, data2, o3)
                   kn1 == [encodings |-> Append(known.encodings, capture[1]),
                           names |-> Append(known.names, name)]
                   skf == save_known_faces(FaceFS, kn1, o4)
                   reason == IF ~r.result THEN "register_user"
                             ELSE IF ~sd.ok THEN "save_data"
                             ELSE IF ~skf.ok THEN "save_known_faces"
                             ELSE "success"
               IN
               /\ data' = IF r.result THEN data2 ELSE r.data
               /\ dataFile' = IF r.result THEN sd.fs.primary ELSE r.dataFS.primary
               /\ dataTmp' = IF r.result THEN sd.fs.tmp ELSE r.dataFS.tmp
               /\ known' = IF r.result /\ sd.ok THEN kn1 ELSE known
               /\ faceFile' = IF r.result /\ sd.ok THEN skf.fs.primary ELSE faceFile
               /\ faceTmp' = IF r.result /\ sd.ok THEN skf.fs.tmp ELSE faceTmp
               /\ last' = [op |-> "complete_registration", username |-> Str(name),
                           result |-> reason = "success", reason |-> reason,
                           notified |-> Both(NotifyIf(r.result, _callbacks),
                                             NotifyIf(r.result /\ sd.ok, _callbacks))]
            /\ face_data' = face_data
            /\ now' = now + 1
    /\ UNCHANGED <<reg, view, pc, job>>
    /\ UNCHANGED windowVars
    /\ UNCHANGED registered

(* LoginWindow._capture_login_face: a face found in one of the frames is   *)
(* kept as the probe; without a face the field is left as it was.          *)
CaptureLoginFace ==
    /\ Ready
    /\ \E capture \in Captures :
          login_face_encoding' = IF capture = None THEN login_face_encoding
                                 ELSE capture
    /\ UNCHANGED <<data, face_data, dataFile, dataTmp, faceFile, faceTmp,
                   now, known, reg, view, pc, job, last, _callbacks, registered>>

(* LoginWindow._combined_login: the result names the branch that ended the *)
(* attempt; "launched" is self._launch_app(username).                      *)
_combined_login(d, username, password, probe) ==
    LET user_data == FindUser(d, username) IN
    IF username = "" \/ password = "" THEN "missing_input"
    ELSE IF ~Traditional_authenticate(d, username, password) THEN "invalid_credentials"
    ELSE IF probe = None THEN "no_capture"
    ELSE IF user_data = None \/ user_data[1].face_encoding = None THEN "no_face_enrolled"
    ELSE IF InSeq(compare_faces(<<nparray(user_data[1].face_encoding[1])>>,
                                probe[1], LoginTolerance), TRUE)
    THEN "launched"
    ELSE "face_mismatch"

CombinedLogin ==
    /\ Ready
    /\ \E name \in EntryNames, password \in FormPasswords :
       \E result \in {_combined_login(data, name, password, login_face_encoding)} :
          /\ last' = [op |-> "combined_login", username |-> name,
                      password |-> password, probe |-> login_face_encoding,
                      result |-> result]
          /\ login_face_encoding' = IF result = "face_mismatch" THEN None
                                    ELSE login_face_encoding
    /\ UNCHANGED <<data, face_data, dataFile, dataTmp, faceFile, faceTmp,
                   now, known, reg, view, pc, job, _callbacks, registered>>

(* A collaborator window reads the document: self.data = load_data() *)
ViewLoad ==
    /\ Ready
    /\ \E o \in SaveOutcomes, order \in CategoryOrders(DataFS) :
          LET ld == load_data(DataFS, o, order) IN
          /\ dataFile.state # "absent" => o = "ok"
          /\ view' = Some(ld.doc)
          /\ dataFile' = ld.fs.primary
          /\ dataTmp' = ld.fs.tmp
          /\ last' = [op |-> "load_data", found |-> dataFile,
                      notified |-> NotifyIf(ld.saved, _callbacks)]
    /\ UNCHANGED <<data, face_data, faceFile, faceTmp, now, known, reg, pc, job>>
    /\ UNCHANGED windowVars
    /\ UNCHANGED registered

(* the names the category entry can hold *)
CategoryNames == {"", "food", "rent"}

(* CategoryManager.add_category: the new category is appended to the       *)
(* window's document, which is saved whole. 'category_data', a key of the  *)
(* collaborator that load_data does not require, is left out.              *)
AddCategory ==
    /\ Ready
    /\ view # None
    /\ \E category \in CategoryNames :
          IF category = "" \/ InSeq(view[1].categories, category)
          THEN /\ last' = [op |-> "add_category", result |-> FALSE,
                           notified |-> NoNotification]
               /\ UNCHANGED <<view, dataFile, dataTmp>>
          ELSE \E o \in OutcomesFor(DataFS) :
               LET doc == [view[1] EXCEPT !.categories = Append(@, category)]
                   sd == save_data(DataFS, doc, o)
               IN  /\ view' = Some(doc)
                   /\ dataFile' = sd.fs.primary
                   /\ dataTmp' = sd.fs.tmp
                   /\ last' = [op |-> "save_data", result |-> sd.ok,
                               old |-> dataFile,
                               notified |-> NotifyIf(sd.ok, _callbacks)]
    /\ UNCHANGED <<data, face_data, faceFile, faceTmp, now, known, reg, pc, job>>
    /\ UNCHANGED windowVars
    /\ UNCHANGED registered

MaxTransactions == 1

TransactionTypes == {"income", "expenses", "goals"}

(* the transaction_data of add_income and of add_expense *)
TransactionData(type) ==
    IF type = "expenses" THEN [amount |-> 5, category |-> "food"]
    ELSE [amount |-> 5]

(* the transactions in the document on disk *)
TransactionsOnDisk ==
    IF dataFile.state = "complete"
    THEN Len(Repair(json_load(dataFile.doc)).income)
         + Len(Repair(json_load(dataFile.doc)).expenses)
    ELSE 0

(* Database.add_transaction: the document is loaded from disk, the         *)
(* transaction and, for an expense, its category are appended, and the     *)
(* document is saved; after a successful save the observers are notified   *)
(* by save_data and once more here. self.data is not touched.              *)
AddTransaction ==
    /\ Ready
    /\ \E type \in TransactionTypes :
          IF type \notin {"income", "expenses"}
          THEN /\ last' = [op |-> "add_transaction", type |-> type,
                           result |-> "ValueError", saved |-> 0,
                           notified |-> NoNotification]
               /\ UNCHANGED <<dataFile, dataTmp>>
          ELSE /\ TransactionsOnDisk < MaxTransactions
               /\ \E o1 \in IF dataFile.state = "absent" THEN OutcomesFor(DataFS)
                              ELSE {"ok"},
                     order \in CategoryOrders(DataFS) :
                  \E ld \in {load_data(DataFS, o1, order)} :
                  \E o2 \in OutcomesFor(ld.fs) :
                  LET transaction_data == TransactionData(type)
                      added == [ld.doc EXCEPT ![type] = Append(@, transaction_data)]
                      current_data ==
                          IF /\ type = "expenses"
                             /\ ~InSeq(added.categories, transaction_data.category)
                          THEN [added EXCEPT
                                   !.categories = Append(@, transaction_data.category)]
                          ELSE added
                      sd == save_data(ld.fs, current_data, o2)
                  IN  /\ dataFile' = sd.fs.primary
                      /\ dataTmp' = sd.fs.tmp
                      /\ last' = [op |-> "add_transaction", type |-> type,
                                  result |-> sd.ok,
                                  saved |-> (IF ld.saved THEN 1 ELSE 0)
                                            + (IF sd.ok THEN 1 ELSE 0),
                                  notified |->
                                      Both(NotifyIf(ld.saved, _callbacks),
                                           Both(NotifyIf(sd.ok, _callbacks),
                                                NotifyIf(sd.ok, _callbacks)))]
    /\ UNCHANGED <<data, face_data, faceFile, faceTmp, now, known, reg, view, pc, job>>
    /\ UNCHANGED windowVars
    /\ UNCHANGED registered

(* A window registers its on_data_updated with the database. *)
RegisterCallback ==
    /\ Ready
    /\ \E o \in Observers : _callbacks' = register_callback(_callbacks, o)
    /\ UNCHANGED <<data, face_data, dataFile, dataTmp, faceFile, faceTmp,
                   now, known, reg, view, pc, job, last, login_face_encoding,
                   registered>>

(* A window that is destroyed unregisters its callback. *)
UnregisterCallback ==
    /\ Ready
    /\ \E o \in Observers : _callbacks' = unregister_callback(_callbacks, o)
    /\ UNCHANGED <<data, face_data, dataFile, dataTmp, faceFile, faceTmp,
                   now, known, reg, view, pc, job, last, login_face_encoding,
                   registered>>

(* A collaborator window saves its document, db_instance.save_data(        *)
(* self.data), while the observers behave as drawn. returned is the value  *)
(* save_data returns, or None when an exception leaves it.                 *)
SaveObserved ==
    /\ Ready
    /\ view # None
    /\ \E o \in OutcomesFor(DataFS), behaviour \in [Observers -> Behaviours] :
          LET sd == save_data(DataFS, view[1], o)
              n == IF sd.ok THEN notify_round(_callbacks, behaviour)
                   ELSE [callbacks |-> _callbacks, notified |-> NoNotification,
                         raised |-> ""]
          IN  /\ dataFile' = sd.fs.primary
              /\ dataTmp' = sd.fs.tmp
              /\ _callbacks' = n.callbacks
              /\ last' = [op |-> "save_data_observed", saved |-> sd.ok,
                          returned |-> IF n.raised = "" THEN Some(sd.ok) ELSE None,
                          raised |-> n.raised, before |-> _callbacks,
                          behaviour |-> behaviour, notified |-> n.notified]
    /\ UNCHANGED <<data, face_data, faceFile, faceTmp, now, known, reg, view, pc, job,
                   login_face_encoding, registered>>

(* A collaborator window saves its document: db_instance.save_data(        *)
(* self.data), followed here one filesystem call at a time.                *)
SaveBegin ==
    /\ Ready
    /\ view # None
    /\ pc' = "write"
    /\ job' = Some([doc |-> view[1], old |-> dataFile, success |-> FALSE])
    /\ UNCHANGED <<data, face_data, dataFile, dataTmp, faceFile, faceTmp,
                   now, known, reg, view, last>>
    /\ UNCHANGED windowVars
    /\ UNCHANGED registered

SaveWrite ==
    /\ pc = "write"
    /\ \E ok \in BOOLEAN :
          LET fs == WriteTemp(DataFS, Complete("json", json_dump(job[1].doc)), ok) IN
          /\ dataFile' = fs.primary
          /\ dataTmp' = fs.tmp
          /\ pc' = IF ok THEN "remove" ELSE "finally"
    /\ UNCHANGED <<data, face_data, faceFile, faceTmp, now, known, reg, view,
                   job, last>>
    /\ UNCHANGED windowVars
    /\ UNCHANGED registered

SaveRemove ==
    /\ pc = "remove"
    /\ \E ok \in BOOLEAN :
          LET fs == RemovePrimary(DataFS, ok) IN
          /\ dataFile.state = "absent" => ok
          /\ dataFile' = fs.primary
          /\ dataTmp' = fs.tmp
          /\ pc' = IF ok THEN "rename" ELSE "finally"
    /\ UNCHANGED <<data, face_data, faceFile, faceTmp, now, known, reg, view,
                   job, last>>
    /\ UNCHANGED windowVars
    /\ UNCHANGED registered

SaveRename ==
    /\ pc = "rename"
    /\ \E ok \in BOOLEAN :
          LET fs == RenameTemp(DataFS, ok) IN
          /\ dataFile' = fs.primary
          /\ dataTmp' = fs.tmp
          /\ job' = Some([job[1] EXCEPT !.success = ok])
          /\ pc' = "finally"
    /\ UNCHANGED <<data, face_data, faceFile, faceTmp, now, known, reg, view, last>>
    /\ UNCHANGED windowVars
    /\ UNCHANGED registered

SaveReturn ==
    /\ pc = "finally"
    /\ LET fs == RemoveTemp(DataFS) IN
          /\ dataFile' = fs.primary
          /\ dataTmp' = fs.tmp
    /\ last' = [op |-> "save_data", result |-> job[1].success,
                old |-> job[1].old,
                notified |-> NotifyIf(job[1].success, _callbacks)]
    /\ pc' = "idle"
    /\ job' = None
    /\ UNCHANGED <<data, face_data, faceFile, faceTmp, now, known, reg, view>>
    /\ UNCHANGED windowVars
    /\ UNCHANGED registered

(* The process ends, normally or killed in the middle of a save, and the   *)
(* application is launched again: db_instance = Database().                *)
Restart ==
    /\ last.op = "none"
    /\ \E o \in SaveOutcomes, order \in CategoryOrders(DataFS) :
          LET ld == load_data(DataFS, o, order) IN
          /\ dataFile.state # "absent" => o = "ok"
          /\ data' = ld.doc
          /\ dataFile' = ld.fs.primary
          /\ dataTmp' = ld.fs.tmp
    /\ face_data' = load_face_data(FaceFS)
    /\ known' = load_known_faces(FaceFS)
    /\ reg' = None
    /\ view' = None
    /\ pc' = "idle"
    /\ job' = None
    /\ last' = [op |-> "__init__", found |-> dataFile.state, during |-> pc]
    /\ _callbacks' = <<>>
    /\ login_face_encoding' = None
    /\ UNCHANGED <<faceFile, faceTmp, now, registered>>

(* The caller takes the result of the call that has just returned. *)
Return ==
    /\ pc = "idle"
    /\ last.op # "none"
    /\ last' = [op |-> "none"]
    /\ UNCHANGED <<data, face_data, dataFile, dataTmp, faceFile, faceTmp,
                   now, known, reg, view, pc, job>>
    /\ UNCHANGED windowVars
    /\ UNCHANGED registered

(* The account store driven through its own operations *)
Next ==
    \/ Return
    \/ RegisterUser
    \/ AuthenticateFace
    \/ FaceRegisterCall
    \/ FaceRegisterAttempt
    \/ FaceAuthenticate
    \/ Restart

Spec == Init /\ [][Next]_vars

(* The account document on disk: password registrations, collaborator      *)
(* windows that load and save the document, each save one filesystem call  *)
(* at a time, and the process ending at any point.                         *)
NextSave ==
    \/ Return
    \/ TraditionalRegister
    \/ ViewLoad
    \/ SaveBegin
    \/ SaveWrite
    \/ SaveRemove
    \/ SaveRename
    \/ SaveReturn
    \/ Restart

SpecSave == Init /\ [][NextSave]_vars

(* The account document shared with the collaborators: transactions,       *)
(* category edits and password registrations.                              *)
NextDoc ==
    \/ Return
    \/ TraditionalRegister
    \/ ViewLoad
    \/ AddCategory
    \/ AddTransaction
    \/ Restart

SpecDoc == Init /\ [][NextDoc]_vars

(* The observers of the account document and the saves that notify them.   *)
NextObservers ==
    \/ Return
    \/ RegisterCallback
    \/ UnregisterCallback
    \/ ViewLoad
    \/ AddCategory
    \/ AddTransaction
    \/ Restart

SpecObservers == Init /\ [][NextObservers]_vars

(* A launch on a data.json that some other program, an older version or an *)
(* editor left behind: what can stand under each key of the JSON text. A   *)
(* key can be missing, hold a value of another JSON type, or hold a value  *)
(* of the type load_data requires.                                         *)
Missing == [t |-> "missing", v |-> <<>>]

JsonList(items) == [t |-> "list", v |-> items]
JsonDict(mapping) == [t |-> "dict", v |-> mapping]

FoundValues(key) ==
    IF key = "budget"
    THEN {Missing, JsonList(<<>>), [t |-> "null", v |-> <<>>],
          JsonDict(EmptyDict), JsonDict([c \in {"food"} |-> 5])}
    ELSE IF key = "categories"
    THEN {Missing, JsonDict(EmptyDict), JsonList(<<>>), JsonList(<<"food">>),
          JsonList(<<"food", "rent">>), JsonList(<<"food", "food">>)}
    ELSE IF key = "income"
    THEN {Missing, [t |-> "null", v |-> <<>>], JsonList(<<[amount |-> 5]>>)}
    ELSE IF key = "goals"
    THEN {Missing, JsonDict(EmptyDict), JsonList(<<[name |-> "car"]>>)}
    ELSE {Missing, JsonDict(EmptyDict), JsonList(<<>>)}

(* the JSON text with the keys that are not missing *)
FoundDocument(value) ==
    [key \in {k \in required_keys : value[k] # Missing} |-> value[key]]

FoundDocuments ==
    {FoundDocument([income |-> i, expenses |-> e, categories |-> c,
                    budget |-> b, goals |-> g, users |-> u]) :
        i \in FoundValues("income"), e \in FoundValues("expenses"),
        c \in FoundValues("categories"), b \in FoundValues("budget"),
        g \in FoundValues("goals"), u \in FoundValues("users")}

(* Database() constructed on such a file *)
InitLoad ==
    \E text \in FoundDocuments :
    \E order \in CategoryOrders([primary |-> Complete("json", text), tmp |-> Absent]) :
        LET ld == load_data([primary |-> Complete("json", text), tmp |-> Absent],
                            "ok", order) IN
        /\ data = ld.doc
        /\ dataFile = ld.fs.primary
        /\ dataTmp = ld.fs.tmp
        /\ face_data = EmptyFaceData
        /\ faceFile = Absent
        /\ faceTmp = Absent
        /\ now = 0
        /\ known = EmptyKnown
        /\ reg = None
        /\ view = None
        /\ pc = "idle"
        /\ job = None
        /\ last = [op |-> "__init__"]
        /\ _callbacks = <<>>
        /\ login_face_encoding = None
        /\ registered = {}

(* Windows that load the document found at the launch *)
NextLoad ==
    \/ Return
    \/ ViewLoad
    \/ Restart

SpecLoad == InitLoad /\ [][NextLoad]_vars

(* the arguments of the direct registrations of the password scenarios *)
AccountNames == {Str(n) : n \in Names}
AccountPasswords == {None, Some("pw")}
AccountEncodings == {None, Some(ListEnc(EncodingLength, 20))}

RegisterAccount == RegisterWith(AccountNames, AccountPasswords, AccountEncodings)

(* Accounts with a password, a face or both, registered directly and       *)
(* through TraditionalAuthenticator, and the single-factor verifications.  *)
NextPassword ==
    \/ Return
    \/ RegisterAccount
    \/ TraditionalRegister
    \/ AuthenticatePassword
    \/ TraditionalAuthenticate
    \/ AuthenticateFace
    \/ Restart

SpecPassword == Init /\ [][NextPassword]_vars

(* Registration and login through the windows of gui.py. *)
NextLogin ==
    \/ Return
    \/ TraditionalRegister
    \/ CompleteRegistration
    \/ CaptureLoginFace
    \/ CombinedLogin
    \/ Restart

SpecLogin == Init /\ [][NextLogin]_vars

(* The history of the registrations: a register_user call that has         *)
(* returned True is added, with its username and its face_encoding.        *)
Recorded ==
    registered' =
        IF last'.op = "register_user" /\ last'.result
        THEN registered \cup {[username |-> last'.username.val,
                               face_encoding |-> last'.face_encoding]}
        ELSE registered

(* db_instance.register_user(username, password, face_encoding) *)
RegisterUserRecorded ==
    /\ RegisterCall(UsernameInputs, PasswordInputs, EncodingInputs)
    /\ Recorded

(* Accounts registered directly, with the history of the registrations,    *)
(* and logins by face.                                                     *)
NextAccounts ==
    \/ Return
    \/ RegisterUserRecorded
    \/ AuthenticateFace
    \/ Restart

SpecAccounts == Init /\ [][NextAccounts]_vars

(* traditional_auth.register_user(username, password) *)
TraditionalRegisterRecorded ==
    /\ TraditionalRegisterCall
    /\ Recorded

(* The account document shared with the collaborators, with the history of *)
(* the registrations.                                                      *)
NextShared ==
    \/ Return
    \/ TraditionalRegisterRecorded
    \/ ViewLoad
    \/ AddCategory
    \/ AddTransaction
    \/ Restart

SpecShared == Init /\ [][NextShared]_vars

(* Saves of the document with observers that can raise. *)
NextNotify ==
    \/ Return
    \/ RegisterCallback
    \/ UnregisterCallback
    \/ ViewLoad
    \/ SaveObserved
    \/ Restart

SpecNotify == Init /\ [][NextNotify]_vars

(* Accounts with a password, logins with it and changes of it. *)
NextChange ==
    \/ Return
    \/ TraditionalRegister
    \/ TraditionalAuthenticate
    \/ ChangePassword
    \/ Restart

SpecChange == Init /\ [][NextChange]_vars

-----------------------------------------------------------------------------
(* Properties *)

RegisterReturned == last.op = "register_user"
LastName == last.username.val

(* C1: when save_data fails during register_user, the account is not       *)
(* visible once the call has returned failure: user_exists is False and    *)
(* get_user_auth_methods is empty.                                         *)
C1_FailedSaveLeavesNoAccount ==
    (RegisterReturned /\ last.reason = "save_data")
        => /\ ~user_exists(data, LastName)
           /\ get_user_auth_methods(data, LastName) = <<>>

(* C2: when save_face_data fails during register_user with a face          *)
(* encoding, the call returns failure and the user does not exist.         *)
C2_FaceSaveFailureRollsBack ==
    (RegisterReturned /\ last.face_encoding # None
                      /\ InSeq(last.saves, "save_face_data")
                      /\ ~InSeq(last.saves, "save_data"))
        => /\ last.result = FALSE
           /\ ~user_exists(data, LastName)

C2_Witness ==
    /\ RegisterReturned
    /\ last.face_encoding # None
    /\ last.saves = <<"save_face_data">>
    /\ last.result = FALSE
    /\ Len(data.users) = 1

(* C3: every username in the face-template store is the username of an     *)
(* existing user record: no orphaned template.                             *)
C3_NoOrphanTemplate ==
    \A i \in 1..Len(face_data.usernames) :
        user_exists(data, face_data.usernames[i])

(* C4: while save_data runs on an existing primary file, the primary file  *)
(* holds the complete previous document or the complete new one at every   *)
(* step.                                                                   *)
C4_PrimaryAlwaysOldOrNew ==
    (pc # "idle" /\ job[1].old.state = "complete")
        => dataFile \in {job[1].old, Complete("json", json_dump(job[1].doc))}

(* C5: when save_data returns False, the primary file still holds the      *)
(* document it held before the call.                                       *)
C5_FailedSaveKeepsFile ==
    (last.op = "save_data" /\ pc = "idle" /\ ~last.result)
        => dataFile = last.old

(* C6: register_user on a username that already exists fails and changes   *)
(* neither the user records nor the face-template store.                   *)
C6_DuplicateRejectedUnchanged ==
    [][(/\ last'.op = "register_user"
        /\ last' # last
        /\ last'.username.type = "str"
        /\ user_exists(data, last'.username.val))
          => /\ last'.result = FALSE
             /\ data' = data
             /\ face_data' = face_data
             /\ dataFile' = dataFile
             /\ faceFile' = faceFile]_vars

C6_Witness ==
    /\ RegisterReturned
    /\ last.reason = "duplicate"
    /\ user_exists(data, LastName)
    /\ last.password # None
    /\ last.face_encoding # None

(* C7: no two user records have the same username, compared                *)
(* case-sensitively.                                                       *)
C7_UniqueUsernames ==
    \A i, j \in 1..Len(data.users) :
        i # j => data.users[i].username # data.users[j].username

C7_Witness ==
    /\ user_exists(data, "al")
    /\ user_exists(data, "Al")
    /\ RegisterReturned
    /\ last.reason = "duplicate"

(* C8: a register_user call with an empty or non-string username, with     *)
(* neither password nor face encoding, or with an encoding whose length is *)
(* not 128, performs no save and changes nothing; the user does not exist  *)
(* afterwards unless it did before.                                        *)
InvalidArguments(l) ==
    \/ l.username.type # "str"
    \/ l.username.val = ""
    \/ (~Truthy(l.password) /\ l.face_encoding = None)
    \/ (l.face_encoding # None /\ l.face_encoding[1].n # EncodingLength)

C8_ValidationRejectsWithoutEffect ==
    [][(/\ last'.op = "register_user"
        /\ last' # last
        /\ InvalidArguments(last'))
          => /\ last'.result = FALSE
             /\ last'.saves = <<>>
             /\ data' = data
             /\ face_data' = face_data
             /\ dataFile' = dataFile /\ dataTmp' = dataTmp
             /\ faceFile' = faceFile /\ faceTmp' = faceTmp
             /\ (last'.username.type = "str" /\ ~user_exists(data, last'.username.val)
                    => ~user_exists(data', last'.username.val))]_vars

C8_Witness ==
    /\ RegisterReturned
    /\ last.reason = "invalid_encoding"
    /\ last.face_encoding[1].n = EncodingLength - 1
    /\ ~user_exists(data, LastName)
    /\ Len(data.users) = 1

(* C9: whenever Database.authenticate_face or                              *)
(* FaceAuthenticator.authenticate returns a username, that user exists; a  *)
(* probe that matches only templates without an account is rejected.       *)
C9_NoPhantomIdentity ==
    (last.op \in {"authenticate_face", "face_authenticate"} /\ last.result # None)
        => user_exists(data, last.result[1])

(* a probe within the login tolerance of a template, all such templates    *)
(* being orphans, was rejected by Database.authenticate_face               *)
C9_Witness ==
    /\ last.op = "authenticate_face"
    /\ last.result = None
    /\ \E i \in 1..Len(face_data.encodings) :
          face_distance(face_data.encodings[i], last.probe) <= LoginTolerance
    /\ \A i \in 1..Len(face_data.encodings) :
          face_distance(face_data.encodings[i], last.probe) <= LoginTolerance
              => ~user_exists(data, face_data.usernames[i])

(* the same for FaceAuthenticator.authenticate: the best match of the      *)
(* first capture is a known face without an account                        *)
C9_WitnessKnownFace ==
    /\ last.op = "face_authenticate"
    /\ last.result = None
    /\ last.captures[1] # None
    /\ known.encodings # <<>>
    /\ LET best == ArgMin(known.encodings, last.captures[1][1]) IN
          /\ face_distance(known.encodings[best], last.captures[1][1]) < LoginTolerance
          /\ ~user_exists(data, known.names[best])

(* C10: with two users enrolled 0.2 apart and nothing else in the          *)
(* template store, presenting a user's exact embedding to                  *)
(* authenticate_face returns that user's own username.                     *)
TwoUsersEnrolledClose ==
    /\ Len(data.users) = 2
    /\ Len(face_data.usernames) = 2
    /\ \A i \in 1..2 :
          /\ data.users[i].username = face_data.usernames[i]
          /\ data.users[i].face_encoding = Some(tolist(face_data.encodings[i]))
    /\ face_distance(face_data.encodings[1], face_data.encodings[2]) = 20

C10_ExactProbeResolvesToOwner ==
    (last.op = "authenticate_face" /\ TwoUsersEnrolledClose)
        => \A i \in 1..2 :
              tolist(face_data.encodings[i]) = last.probe
                  => last.result = Some(face_data.usernames[i])

(* C11: a face comparison is accepted only at a distance strictly below    *)
(* the tolerance: whenever authenticate_face or                            *)
(* FaceAuthenticator.authenticate returns a username, a template of that   *)
(* username lies at a distance below 0.4 from the probe; a probe at        *)
(* exactly 0.4 is not a match.                                             *)
C11_StrictlyBelowTolerance ==
    /\ (last.op = "authenticate_face" /\ last.result # None)
          => \E i \in 1..Len(face_data.encodings) :
                /\ face_data.usernames[i] = last.result[1]
                /\ face_distance(face_data.encodings[i], last.probe) < LoginTolerance
    /\ (last.op = "face_authenticate" /\ last.result # None)
          => \E i \in 1..Len(known.encodings), k \in 1..MaxAttempts :
                /\ known.names[i] = last.result[1]
                /\ last.captures[k] # None
                /\ face_distance(known.encodings[i], last.captures[k][1])
                      < LoginTolerance

(* C12: registering a new username with a face embedding that lies below   *)
(* the duplicate tolerance 0.35 from the embedding of an already enrolled  *)
(* user fails, and creates neither a user record nor a face template for   *)
(* the new username.                                                       *)
C12_DuplicateFaceRejected ==
    [][(/\ last'.op = "register_user"
        /\ last' # last
        /\ last'.username.type = "str"
        /\ ~user_exists(data, last'.username.val)
        /\ last'.face_encoding # None
        /\ \E i \in 1..Len(data.users) :
              /\ data.users[i].face_encoding # None
              /\ face_distance(data.users[i].face_encoding[1],
                               last'.face_encoding[1]) < DuplicateTolerance)
          => /\ last'.result = FALSE
             /\ ~user_exists(data', last'.username.val)
             /\ ~InSeq(face_data'.usernames, last'.username.val)]_vars

(* C13: password verification returns True only for an existing user with  *)
(* a stored digest that equals the digest of the presented password, and   *)
(* False for an unknown user, a face-only user and an empty password.      *)
(* Right after a successful registration with a password, verifying that   *)
(* password succeeds and verifying any other fails, through                *)
(* Database.authenticate_password and, for a registration made by          *)
(* TraditionalAuthenticator, through TraditionalAuthenticator.authenticate.*)
C13_PasswordVerification ==
    /\ last.op = "authenticate_password" =>
          LET user == FindUser(data, last.username) IN
          /\ last.result => /\ user # None
                            /\ user[1].password_hash # None
                            /\ Truthy(last.password)
                            /\ user[1].password_hash = _hash_password(last.password)
          /\ (user = None \/ user[1].password_hash = None \/ ~Truthy(last.password))
                => ~last.result
    /\ last.op = "traditional_authenticate" =>
          LET user == FindUser(data, last.username) IN
          /\ last.result
                => /\ user # None
                   /\ last.password # ""
                   /\ user[1].password_hash =
                         _hash_password(Traditional_hash_password(Some(last.password)))
          /\ (user = None \/ user[1].password_hash = None \/ last.password = "")
                => ~last.result
    /\ (RegisterReturned /\ last.result /\ Truthy(last.password)) =>
          /\ \A p \in PasswordInputs \cup {Some("password1"), last.password} :
                authenticate_password(data, LastName, p) <=> p = last.password
          /\ \A p \in FormPasswords :
                Traditional_authenticate(data, LastName, p)
                    <=> (p # "" /\ Traditional_hash_password(Some(p)) = last.password)

(* a password registered through TraditionalAuthenticator was verified     *)
(* through it                                                              *)
C13_Witness ==
    /\ last.op = "traditional_authenticate"
    /\ last.result
    /\ user_exists(data, last.username)

(* C14: for every existing user get_user_auth_methods is non-empty and     *)
(* equals the methods recorded from the arguments of the registration; it  *)
(* holds 'password' exactly when a non-empty password was supplied and     *)
(* 'face' exactly when a face embedding was supplied; for a username       *)
(* without a record it is empty.                                           *)
C14_AuthMethods ==
    /\ \A i \in 1..Len(data.users) :
          /\ get_user_auth_methods(data, data.users[i].username) # <<>>
          /\ get_user_auth_methods(data, data.users[i].username)
                = data.users[i].auth_methods
    /\ \A name \in EntryNames :
          ~user_exists(data, name) => get_user_auth_methods(data, name) = <<>>
    /\ (RegisterReturned /\ last.result) =>
          LET methods == get_user_auth_methods(data, LastName) IN
          /\ InSeq(methods, "password") <=> Truthy(last.password)
          /\ InSeq(methods, "face") <=> last.face_encoding # None

(* a password-only user and a face-only user exist, the second just        *)
(* registered                                                              *)
C14_Witness ==
    /\ RegisterReturned
    /\ last.result
    /\ get_user_auth_methods(data, LastName) = <<"face">>
    /\ \E i \in 1..Len(data.users) :
          get_user_auth_methods(data, data.users[i].username) = <<"password">>

(* C15: the combined login launches the application for a username only if *)
(* the password verified for it, its record holds a face embedding and the *)
(* probe lies within the login tolerance (distance below 0.4) of that      *)
(* embedding; a failed password check rejects whatever the probe is, a     *)
(* verified user without an embedding is rejected as no face enrolled, and *)
(* a probe that does not match as face mismatch.                           *)
C15_CombinedLogin ==
    last.op = "combined_login" =>
       LET user == FindUser(data, last.username)
           verified == Traditional_authenticate(data, last.username, last.password)
       IN
       /\ last.result = "launched"
             => /\ verified
                /\ user # None
                /\ user[1].face_encoding # None
                /\ last.probe # None
                /\ face_distance(user[1].face_encoding[1], last.probe[1])
                      < LoginTolerance
       /\ ~verified => last.result \in {"missing_input", "invalid_credentials"}
       /\ (verified /\ last.probe # None /\ user[1].face_encoding = None)
             => last.result = "no_face_enrolled"
       /\ (verified /\ last.probe # None /\ user[1].face_encoding # None
             /\ face_distance(user[1].face_encoding[1], last.probe[1])
                   >= LoginTolerance)
             => last.result = "face_mismatch"

(* C16: an authentication attempt that is rejected (wrong password,        *)
(* unknown user, no face enrolled, face mismatch, orphaned template)       *)
(* leaves the user records, the face templates and both documents on disk  *)
(* unchanged.                                                              *)
AttemptRejected(l) ==
    \/ l.op \in {"authenticate_password", "traditional_authenticate"} /\ ~l.result
    \/ l.op \in {"authenticate_face", "face_authenticate"} /\ l.result = None
    \/ l.op = "combined_login" /\ l.result # "launched"

C16_RejectedAttemptChangesNothing ==
    [][(last' # last /\ AttemptRejected(last'))
          => /\ data' = data
             /\ face_data' = face_data
             /\ known' = known
             /\ dataFile' = dataFile /\ dataTmp' = dataTmp
             /\ faceFile' = faceFile /\ faceTmp' = faceTmp]_vars

(* a probe whose only matches are orphaned templates was rejected, in a    *)
(* store that holds a user with a password                                 *)
C16_Witness ==
    /\ last.op = "authenticate_face"
    /\ last.result = None
    /\ InSeq(compare_faces(face_data.encodings, last.probe, LoginTolerance), TRUE)
    /\ \E i \in 1..Len(data.users) : data.users[i].password_hash # None

(* C17: each successful save of the account document calls every           *)
(* registered observer exactly once, also when the save is made by         *)
(* add_transaction, and a save that fails calls no observer: after a call, *)
(* every registered observer was called as often as the call saved the     *)
(* document successfully, and no other observer was called.                *)
SuccessfulSaves(l) ==
    IF l.op = "add_transaction" THEN l.saved
    ELSE IF l.result = TRUE THEN 1 ELSE 0

C17_NotifiedOncePerSave ==
    last.op \in {"save_data", "add_transaction", "register_user"}
        => \A o \in Observers :
              last.notified[o] = IF InSeq(_callbacks, o)
                                 THEN SuccessfulSaves(last) ELSE 0

(* C18: a successful register_user changes only the users key of the       *)
(* document on disk: income, expenses, categories, budget and goals on     *)
(* disk after the call equal their values on disk right before it,         *)
(* whatever add_transaction and collaborator saves came before.            *)
C18_RegisterChangesOnlyUsers ==
    [][(/\ last'.op = "register_user"
        /\ last' # last
        /\ last'.result
        /\ dataFile.state = "complete")
          => /\ dataFile'.state = "complete"
             /\ \A key \in required_keys \ {"users"} :
                   dataFile'.doc[key] = dataFile.doc[key]]_vars

(* C19: after save_data(D) has returned True for a well-formed document D, *)
(* the next load_data returns a document equal to D, with the same keys,   *)
(* values and order of list elements.                                      *)
C19_SaveLoadRoundTrip ==
    (last.op = "save_data" /\ last.result /\ view # None)
        => \A order \in CategoryOrders(DataFS) :
              load_data(DataFS, "ok", order).doc = view[1]

(* C20: load_data repairs the document key by key: a required key that is  *)
(* missing or not of its expected type comes back as the empty value of    *)
(* that type, and a key whose value has the expected type comes back with  *)
(* its value unchanged.                                                    *)
C20_LoadRepairsKeyByKey ==
    (last.op = "load_data" /\ last.found.state = "complete")
        => \A key \in required_keys :
              view[1][key] =
                  IF /\ key \in DOMAIN last.found.doc
                     /\ last.found.doc[key].t = ExpectedType(key)
                  THEN last.found.doc[key].v
                  ELSE EmptyOf(ExpectedType(key))

(* the (username, embedding) pairs of a face-template store, by position *)
Pairs(fd) == [i \in 1..Len(fd.usernames) |-> <<fd.usernames[i], fd.encodings[i]>>]

RECURSIVE Embeds(_, _)
(* s is t with some of its entries deleted, the others in their order *)
Embeds(s, t) ==
    IF s = <<>> THEN TRUE
    ELSE IF t = <<>> THEN FALSE
    ELSE IF Head(s) = Head(t) THEN Embeds(Tail(s), Tail(t))
    ELSE Embeds(s, Tail(t))

(* C21: through every enrollment and rollback of register_user the         *)
(* 'encodings' and 'usernames' sequences of the face-template store have   *)
(* equal length, and the pairs (usernames[i], encodings[i]) after the call *)
(* are pairs that stood together before it or the pair this call enrolled: *)
(* entry i of one always belongs to entry i of the other.                  *)
C21_PositionalCorrespondence ==
    [][/\ Len(face_data'.encodings) = Len(face_data'.usernames)
       /\ last'.op = "register_user"
            => Embeds(Pairs(face_data'),
                      IF last'.face_encoding = None
                      THEN Pairs(face_data)
                      ELSE Append(Pairs(face_data),
                                  <<last'.username.val,
                                    nparray(last'.face_encoding[1])>>))]_vars

C21_Witness ==
    /\ last.op = "register_user"
    /\ last.reason = "save_data"
    /\ last.face_encoding # None
    /\ Len(face_data.usernames) = 1
    /\ face_data.usernames[1] # last.username.val
    /\ face_data.encodings[1].x # last.face_encoding[1].x

(* C22: after every register_user call each username occurs at most once   *)
(* in the face-template store, and a username occurs in it exactly when    *)
(* the record of that user has a face embedding.                           *)
C22_OneTemplatePerEnrolledUser ==
    last.op = "register_user"
        => /\ \A i, j \in 1..Len(face_data.usernames) :
                 face_data.usernames[i] = face_data.usernames[j] => i = j
           /\ \A u \in Names :
                 InSeq(face_data.usernames, u)
                     <=> /\ FindUser(data, u) # None
                         /\ FindUser(data, u)[1].face_encoding # None

(* C23: change_password(username, old, new) with the correct old password  *)
(* and a new password of at least 8 characters returns True, after which   *)
(* the new password authenticates and the old one does not; with a wrong   *)
(* old password the stored digest is what it was before.                   *)
C23_ChangePasswordReplacesDigest ==
    last.op = "change_password"
        => /\ (last.verified /\ Len(last.new_password) >= MinPasswordLength)
                => /\ last.returned = Some(TRUE)
                   /\ Traditional_authenticate(data, last.username, last.new_password)
                   /\ last.new_password # last.old_password
                        => ~Traditional_authenticate(data, last.username,
                                                     last.old_password)
           /\ (last.old_password # "" /\ ~last.verified)
                => FindUser(data, last.username) = last.before

(* C24: when authenticate_face(P) returns the username u, some             *)
(* register_user(u, face_encoding=E) call that returned True enrolled an   *)
(* embedding E whose distance to P is within the login tolerance: a        *)
(* template left by a failed registration authenticates nobody.            *)
C24_TemplateOfOwnRegistration ==
    (last.op = "authenticate_face" /\ last.result # None)
        => \E r \in registered :
              /\ r.username = last.result[1]
              /\ r.face_encoding # None
              /\ face_distance(r.face_encoding[1], last.probe) <= LoginTolerance

(* the user records of the account document on disk *)
UsersOnDisk ==
    IF dataFile.state = "complete"
    THEN Repair(json_load(dataFile.doc)).users
    ELSE <<>>

(* C25: every user in the account document on disk was registered by a     *)
(* register_user call that returned True: no later save writes the record  *)
(* of a registration that returned False.                                  *)
C25_NoFailedRegistrationOnDisk ==
    \A i \in 1..Len(UsersOnDisk) :
        \E r \in registered : r.username = UsersOnDisk[i].username

(* C26: a user whose register_user call has returned True is in the        *)
(* document that load_data returns at every later moment, whatever         *)
(* add_transaction calls and saves of collaborator documents come after.   *)
C26_RegisteredUserStaysOnDisk ==
    \A r \in registered :
        \A order \in CategoryOrders(DataFS) :
            user_exists(load_data(DataFS, "ok", order).doc, r.username)

(* C27: when FaceAuthenticator.register_user(username) has passed its      *)
(* checks (the username did not exist) and returns False, no account       *)
(* exists afterwards: user_exists(username) is False, and neither the      *)
(* known-face list nor the face-template store holds an entry for it.      *)
C27_FailedFaceRegistrationLeavesNothing ==
    [][(reg # None /\ reg' = None /\ last'.op = "face_register" /\ ~last'.result)
          => /\ ~user_exists(data', reg[1].username)
             /\ ~InSeq(known'.names, reg[1].username)
             /\ ~InSeq(face_data'.usernames, reg[1].username)]_vars

(* C28: after FaceAuthenticator.register_user(u) has returned True, a      *)
(* newly constructed Database loads a face-template store that contains    *)
(* u's template, and a newly constructed FaceAuthenticator loads a         *)
(* known-face list that contains u.                                        *)
C28_EnrollmentSurvivesRestart ==
    (last.op = "face_register" /\ last.result)
        => /\ InSeq(load_face_data(FaceFS).usernames, last.username.val)
           /\ InSeq(load_known_faces(FaceFS).names, last.username.val)

(* C29: when at least one template of an existing user lies within the     *)
(* login tolerance of the probe (distance below it), authenticate_face     *)
(* returns a username, whatever other templates match and wherever they    *)
(* stand in the store.                                                     *)
C29_ValidUserIsAuthenticated ==
    (/\ last.op = "authenticate_face"
     /\ \E i \in 1..Len(face_data.usernames) :
           /\ user_exists(data, face_data.usernames[i])
           /\ face_distance(face_data.encodings[i], last.probe) < LoginTolerance)
        => last.result # None

(* C30: in a save that succeeded, an observer that raises during its       *)
(* notification is removed from the callback list, so that later saves do  *)
(* not call it, every other registered observer is still called in that    *)
(* round, and save_data returns True; also when the raising observer has   *)
(* unregistered itself during its own notification.                        *)
C30_RaisingObserverIsDropped ==
    (last.op = "save_data_observed" /\ last.saved)
        => /\ last.returned = Some(TRUE)
           /\ \A i \in 1..Len(last.before) :
                 IF last.behaviour[last.before[i]] = "returns"
                 THEN last.notified[last.before[i]] = 1
                 ELSE ~InSeq(_callbacks, last.before[i])

====
